---------------------------- MODULE Spec2Model ----------------------------
(***************************************************************************)
(* State-machine model of the chat backend in src/main2.py: the emergency  *)
(* classifier, the send_message pipeline (split at its database            *)
(* operations, which is where concurrent requests interleave), the         *)
(* conversation store operations and the slowapi rate limiter that wraps   *)
(* send_message.                                                           *)
(*                                                                         *)
(* Strings are sequences of one-character strings, so that strip(),        *)
(* lower() and the substring test "k in q" are computed, not assumed.      *)
(***************************************************************************)
EXTENDS Integers, Sequences, FiniteSets, TLC

(***************************************************************************)
(* Bounds of the model.                                                    *)
(***************************************************************************)
\* Spec: send requests (all of them may be in flight at once) and sessions created.
MaxSends == 2
MaxChats == 1
\* SpecSend: send requests (one in flight at a time) and sessions created.
MaxSeqSends == 2
MaxSessions == 2
\* SpecCrud: send requests (one in flight at a time) and sessions created.
MaxCrudSends == 1
MaxCrudChats == 2
\* SpecList: send requests (one in flight at a time), sessions created and the
\* milliseconds the wall clock advances.
MaxListSends == 1
MaxListChats == 2
MaxClock == 1
\* SpecRate: send requests, those of the second address in one window, and the half
\* windows the wall clock advances through.
MaxRateSends == 10
MaxOtherSends == 1
MaxHalfWindows == 2
\* SpecQuery: send requests.
MaxQuerySends == 2

(***************************************************************************)
(* String helpers: str.strip(), str.lower(), "k in q", "sep".join(...)     *)
(***************************************************************************)
WhiteSpace == {" ", "\t", "\n", "\r"}

UpperCase == <<"A", "B", "C", "D", "E", "F", "G", "H", "I", "J", "K", "L", "M",
               "N", "O", "P", "Q", "R", "S", "T", "U", "V", "W", "X", "Y", "Z">>

LowerCase == <<"a", "b", "c", "d", "e", "f", "g", "h", "i", "j", "k", "l", "m",
               "n", "o", "p", "q", "r", "s", "t", "u", "v", "w", "x", "y", "z">>

LowerOf == [c \in {UpperCase[i] : i \in 1..Len(UpperCase)} |->
               LowerCase[CHOOSE i \in 1..Len(UpperCase) : UpperCase[i] = c]]

LowerChar(c) == IF c \in DOMAIN LowerOf THEN LowerOf[c] ELSE c

\* q.lower()
Lower(s) == [i \in 1..Len(s) |-> LowerChar(s[i])]

\* q.strip(): leading and trailing whitespace removed
Strip(s) ==
    LET keep == {i \in 1..Len(s) : s[i] \notin WhiteSpace}
    IN  IF keep = {} THEN <<>>
        ELSE LET lo == CHOOSE i \in keep : \A j \in keep : i <= j
                 hi == CHOOSE i \in keep : \A j \in keep : j <= i
             IN  SubSeq(s, lo, hi)

\* k in s: k occurs in s as a contiguous substring
Contains(s, k) ==
    \E i \in 0..(Len(s) - Len(k)) : SubSeq(s, i + 1, i + Len(k)) = k

RECURSIVE Join(_, _)
\* sep.join(parts)
Join(sep, parts) ==
    IF parts = <<>> THEN <<>>
    ELSE IF Len(parts) = 1 THEN parts[1]
    ELSE parts[1] \o sep \o Join(sep, Tail(parts))

(***************************************************************************)
(* EMERGENCY FILTER                                                        *)
(***************************************************************************)
EMERGENCY_KEYWORDS == {
    <<"h", "e", "a", "v", "y", " ", "b", "l", "e", "e", "d", "i", "n", "g">>,
    <<"s", "e", "v", "e", "r", "e", " ", "p", "a", "i", "n">>,
    <<"u", "n", "c", "o", "n", "s", "c", "i", "o", "u", "s">>,
    <<"s", "e", "i", "z", "u", "r", "e">>,
    <<"c", "a", "n", "n", "o", "t", " ", "b", "r", "e", "a", "t", "h", "e">>,
    <<"e", "m", "e", "r", "g", "e", "n", "c", "y">>,
    <<"m", "i", "s", "c", "a", "r", "r", "i", "a", "g", "e">> }

What == <<"w", "h", "a", "t">>

is_emergency(q) == \E k \in EMERGENCY_KEYWORDS : Contains(Lower(q), k)

\* The condition of the emergency branch of send_message.
EmergencyBranch(query) == is_emergency(query) /\ ~Contains(Lower(query), What)

\* The fixed replies (one-fragment texts; a query is a sequence of characters).
SAFETY == << "This may be a medical emergency. Please seek immediate medical care or consult a healthcare professional." >>

APOLOGY == << "Sorry, I couldn't process your question right now. Please try again." >>

(***************************************************************************)
(* bson.ObjectId: 24 hexadecimal characters                                *)
(***************************************************************************)
ObjectIdLen == 24

HexDigits == <<"0", "1", "2", "3", "4", "5", "6", "7", "8", "9",
               "a", "b", "c", "d", "e", "f">>

HexChars == {HexDigits[i] : i \in 1..16} \cup {"A", "B", "C", "D", "E", "F"}

HexValues == [c \in HexChars |-> (CHOOSE i \in 1..16 : HexDigits[i] = LowerChar(c)) - 1]

HexVal(c) == HexValues[c]

\* ObjectId.is_valid for a str argument
IsValidObjectId(s) == Len(s) = ObjectIdLen /\ \A i \in 1..Len(s) : s[i] \in HexChars

RECURSIVE HexNumber(_, _)
\* The number that the first n characters of s write in hexadecimal.
HexNumber(s, n) == IF n = 0 THEN 0 ELSE 16 * HexNumber(s, n - 1) + HexVal(s[n])

\* ObjectId(chat_id): the identifier, as a number, of a valid string
ObjectId(s) == HexNumber(s, Len(s))

\* str(oid): 24 lower-case hexadecimal characters (identifiers below 256)
Hex24(n) == [i \in 1..ObjectIdLen |->
                IF i = ObjectIdLen THEN HexDigits[(n % 16) + 1]
                ELSE IF i = ObjectIdLen - 1 THEN HexDigits[((n \div 16) % 16) + 1]
                ELSE "0"]

OidStrings == [n \in 0..31 |-> Hex24(n)]

OidStr(n) == OidStrings[n]


(***************************************************************************)
(* Inputs                                                                  *)
(***************************************************************************)
Queries == <<
    <<" ", "S", "e", "i", "z", "u", "r", "e", " ">>,
    <<"w", "h", "a", "t", " ", "i", "s", " ", "a", " ", "m", "i", "s", "c", "a", "r", "r", "i", "a", "g", "e">>,
    <<"h", "e", "a", "d", "a", "c", "h", "e">>,
    <<"W", "H", "A", "T", " ", "e", "m", "e", "r", "g", "e", "n", "c", "y">>,
    <<"H", "E", "A", "V", "Y", " ", "B", "L", "E", "E", "D", "I", "N", "G">>,
    <<"w", "h", "a", "t", "e", "v", "e", "r">>,
    <<"h", "e", "a", "v", "y", " ", " ", "b", "l", "e", "e", "d", "i", "n", "g">>,
    <<"s", "o", "m", "e", "w", "h", "a", "t", " ", "u", "n", "c", "o", "n", "s", "c", "i", "o", "u", "s">>,
    <<" ", " ">>,
    <<"s", "e", "v", "e", "r", "e", " ", "p", "a", "i", "n", "\n">>,
    <<"C", "a", "n", "n", "o", "t", " ", "B", "r", "e", "a", "t", "h", "e">>,
    <<"a", "n", " ", "E", "m", "e", "r", "g", "e", "n", "c", "y", "?">>,
    <<"s", "a", "d", " ", "m", "i", "s", "c", "a", "r", "r", "i", "a", "g", "e">>,
    <<"W", "h", "a", "t", "?">> >>

\* Every query above (SpecQuery) and the two that Spec and SpecRate send.
AllQueries == {Queries[i] : i \in 1..Len(Queries)}
FewQueries == {Queries[1], Queries[3]}
OneQuery == {Queries[3]}

\* The path ids that stand for "no id".
Null == <<"n", "u", "l", "l">>
Undefined == <<"u", "n", "d", "e", "f", "i", "n", "e", "d">>
Empty == <<>>
Sentinels == {Null, Undefined, Empty}

\* Path ids that do not parse: too short, and 24 characters with one not hexadecimal.
Malformed == { <<"x", "y", "z">>,
               [i \in 1..ObjectIdLen |-> IF i = ObjectIdLen THEN "g" ELSE "0"] }

\* insert_one generates identifiers that no one has used before: the sessions get
\* 1, 2, ... and a caller's well-formed id is an issued one or this one, never issued.
NeverIssued == 15

\* The well-formed ids a caller can present: those issued so far, and NeverIssued.
WellFormed(issued) == {OidStr(i) : i \in 1..(issued - 1)} \cup {OidStr(NeverIssued)}

\* Every path id of the model, and what bson makes of each (computed once).
PathUniverse == Sentinels \cup Malformed \cup {OidStr(n) : n \in 0..31}

Parsed == [s \in PathUniverse |->
              [valid |-> IsValidObjectId(s),
               oid |-> IF IsValidObjectId(s) THEN ObjectId(s) ELSE 0]]

Titles == {"Renamed"}

Addr1 == "10.0.0.1"
Addr2 == "10.0.0.2"
Addrs == {Addr1, Addr2}

\* retriever.invoke(query): an exception, or the documents' page_content
RetrieverResults ==
    { [ok |-> FALSE, docs |-> <<>>],
      [ok |-> TRUE,  docs |-> <<>>],
      [ok |-> TRUE,  docs |-> << <<" ">>, <<"\n">> >>],
      [ok |-> TRUE,  docs |-> << <<"d", "o", "c">> >>] }

\* llm.invoke(...): an exception, or a response with its content
\* (the content it gives for the prompt with context and for the one without)
LlmResults == { [ok |-> FALSE, content |-> [qa |-> <<>>, general |-> <<>>]],
                [ok |-> TRUE,  content |-> [qa |-> << "reply" >>,
                                            general |-> << "reply" >>]] }

(***************************************************************************)
(* State                                                                   *)
(***************************************************************************)
VARIABLES
    chats,     \* the collection: ObjectId -> [title, created_at, messages]
    nextId,    \* the identifier insert_one generates next
    clock,     \* the wall clock, in milliseconds
    hits,      \* the limiter's storage: address -> [count, expiry]
    reqs,      \* the send_message calls: slot -> the call's locals and position
    nstart,    \* send_message calls received so far
    resp,      \* the response sent by the step just taken (op "none": no response)
    deleted,   \* history: identifiers whose session delete_chat has removed
    admitted   \* history: address -> the times, within the last minute, at which the
               \* limiter admitted a call of that address

vars == <<chats, nextId, clock, hits, reqs, nstart, resp, deleted, admitted>>

Slots == 1..MaxSends

IdleReq == [pc |-> "idle", id |-> 0, addr |-> Addr1, chat_id |-> <<>>, raw |-> <<>>,
            query |-> <<>>, oid |-> 0, created |-> 0, answer |-> <<>>,
            retr |-> 0, llm |-> 0, failed |-> FALSE,
            pushed |-> <<>>, status |-> 0]

NoResp == [op |-> "none", status |-> 0, exc |-> "", oid |-> 0, body |-> <<>>]

Response(op, status, exc, oid, body) ==
    [op |-> op, status |-> status, exc |-> exc, oid |-> oid, body |-> body]

Init ==
    /\ chats = [o \in {} |-> 0]
    /\ nextId = 1
    /\ clock = 0
    /\ hits = [a \in Addrs |-> [count |-> 0, expiry |-> 0]]
    /\ reqs = [r \in Slots |-> IdleReq]
    /\ nstart = 0
    /\ resp = NoResp
    /\ deleted = {}
    /\ admitted = [a \in Addrs |-> <<>>]

(***************************************************************************)
(* The collection's operations                                             *)
(***************************************************************************)
\* A plausible slip: a session born with a greeting in its log.
InsertOneGreeting(c, oid, now) ==
    [o \in DOMAIN c \cup {oid} |->
        IF o = oid
        THEN [title |-> "New Chat", created_at |-> now,
              messages |-> << [role |-> "assistant", text |-> << "Hello." >>, req |-> 0] >>]
        ELSE c[o]]

\* chats.insert_one({"title": "New Chat", "created_at": datetime.now(), "messages": []})
InsertOne(c, oid, now) ==
    [o \in DOMAIN c \cup {oid} |->
        IF o = oid THEN [title |-> "New Chat", created_at |-> now, messages |-> <<>>]
        ELSE c[o]]

\* A plausible slip: a read-modify-write that replaces the log by its last entry.
PushMessageOverwrite(c, oid, msg) ==
    IF oid \in DOMAIN c THEN [c EXCEPT ![oid].messages = <<msg>>] ELSE c

\* A plausible slip: an upsert, which creates the document the filter did not find.
PushMessageUpsert(c, oid, msg) ==
    IF oid \in DOMAIN c
    THEN [c EXCEPT ![oid].messages = Append(@, msg)]
    ELSE [o \in DOMAIN c \cup {oid} |->
             IF o = oid THEN [title |-> "New Chat", created_at |-> 0, messages |-> <<msg>>]
             ELSE c[o]]

\* chats.update_one({"_id": oid}, {"$push": {"messages": msg}}): one atomic append,
\* and nothing at all when no document has that _id
PushMessage(c, oid, msg) ==
    IF oid \in DOMAIN c THEN [c EXCEPT ![oid].messages = Append(@, msg)] ELSE c

\* chats.update_one({"_id": oid}, {"$set": {"title": title}})
SetTitle(c, oid, title) ==
    IF oid \in DOMAIN c THEN [c EXCEPT ![oid].title = title] ELSE c

\* chats.delete_one({"_id": oid})
DeleteOne(c, oid) == [o \in DOMAIN c \ {oid} |-> c[o]]

\* A plausible slip: ascending order.
SortedDescAscending(c, order) ==
    \A i, j \in 1..Len(order) : i < j => c[order[i]].created_at <= c[order[j]].created_at

\* .sort("created_at", -1): the documents in an order of non-increasing created_at
SortedDesc(c, order) ==
    \A i, j \in 1..Len(order) : i < j => c[order[i]].created_at >= c[order[j]].created_at

\* The orders in which chats.find().sort("created_at", -1) can return the documents:
\* every document once; documents with equal created_at in either order.
FindSorted(c) ==
    {order \in [1..Cardinality(DOMAIN c) -> DOMAIN c] :
        /\ \A o \in DOMAIN c : \E i \in 1..Len(order) : order[i] = o
        /\ SortedDesc(c, order)}

(***************************************************************************)
(* The limiter: Limiter(key_func=get_remote_address), "8/minute"           *)
(***************************************************************************)
QUOTA == 8
WINDOW_MS == 60000

\* A plausible slip: the count compared before the hit is added to it.
LimiterHitOffByOne(h, addr, now) ==
    LET live == h[addr].expiry > now
        n == (IF live THEN h[addr].count ELSE 0) + 1
        e == IF live THEN h[addr].expiry ELSE now + WINDOW_MS
    IN  [hits |-> [h EXCEPT ![addr] = [count |-> n, expiry |-> e]],
         ok |-> n - 1 <= QUOTA]

\* One hit of the fixed-window strategy on the address's counter: an expired counter
\* starts again, the first hit of a window sets its expiry, every hit is counted, and
\* the call is admitted while the count is within the quota.
LimiterHit(h, addr, now) ==
    LET live == h[addr].expiry > now
        n == (IF live THEN h[addr].count ELSE 0) + 1
        e == IF live THEN h[addr].expiry ELSE now + WINDOW_MS
    IN  [hits |-> [h EXCEPT ![addr] = [count |-> n, expiry |-> e]],
         ok |-> n <= QUOTA]

(***************************************************************************)
(* POST /chat/new                                                          *)
(***************************************************************************)
new_chat(sessions) ==
    /\ nextId <= sessions
    /\ chats' = InsertOne(chats, nextId, clock)
    /\ nextId' = nextId + 1
    /\ resp' = Response("new_chat", 200, "", nextId, <<OidStr(nextId)>>)
    /\ UNCHANGED <<clock, hits, reqs, nstart, deleted, admitted>>

(***************************************************************************)
(* POST /chat/{chat_id}/send, wrapped by @limiter.limit("8/minute")        *)
(***************************************************************************)
\* not chat_id or chat_id in ["null", "undefined"]
IsSentinel(chat_id) == chat_id = <<>> \/ chat_id \in {Null, Undefined}

\* A plausible slip: the parse failure swallowed and the call carried on with a new session.
ValidatedAsSentinel(chat_id) == "create"

\* What "Create or validate chat" does with the path id.
Validated(chat_id) ==
    IF IsSentinel(chat_id) THEN "create"
    ELSE IF Parsed[chat_id].valid THEN "use"
    ELSE "reject"

\* The limiter's check and lines 159-172: the call is refused by the limiter (429),
\* or it strips the query and creates a session, adopts the caller's id, or refuses a
\* malformed id (400). The call takes the lowest free slot; limit and sessions bound
\* the calls and the sessions of a behaviour.
send_start(slots, recycle, limit, sessions, addr, chat_id, raw) ==
    LET free == {r \in slots : reqs[r].pc = "idle" \/ (recycle /\ reqs[r].pc = "done")}
        lim  == LimiterHit(hits, addr, clock)
        how  == Validated(chat_id)
    IN  /\ nstart < limit
        /\ free # {}
        /\ lim.ok /\ how = "create" => nextId <= sessions
        /\ LET r   == CHOOSE x \in free : \A y \in free : x <= y
               new == [IdleReq EXCEPT !.id = nstart + 1, !.addr = addr,
                                      !.chat_id = chat_id, !.raw = raw]
           IN  /\ nstart' = nstart + 1
               /\ hits' = lim.hits
               /\ IF ~lim.ok
                  THEN /\ reqs' = [reqs EXCEPT ![r] = [new EXCEPT !.pc = "done", !.status = 429]]
                       /\ resp' = Response("send", 429, "RateLimitExceeded", 0, <<>>)
                       /\ UNCHANGED <<chats, nextId, admitted>>
                  ELSE /\ admitted' = [admitted EXCEPT ![addr] = Append(@, clock)]
                       /\ CASE how = "create" ->
                                 /\ chats' = InsertOne(chats, nextId, clock)
                                 /\ nextId' = nextId + 1
                                 /\ reqs' = [reqs EXCEPT ![r] =
                                               [new EXCEPT !.pc = "user", !.query = Strip(raw),
                                                           !.oid = nextId, !.created = 1]]
                                 /\ resp' = NoResp
                            [] how = "use" ->
                                 /\ reqs' = [reqs EXCEPT ![r] =
                                               [new EXCEPT !.pc = "user", !.query = Strip(raw),
                                                           !.oid = Parsed[chat_id].oid]]
                                 /\ resp' = NoResp
                                 /\ UNCHANGED <<chats, nextId>>
                            [] OTHER ->
                                 /\ reqs' = [reqs EXCEPT ![r] =
                                               [new EXCEPT !.pc = "done", !.query = Strip(raw),
                                                           !.status = 400]]
                                 /\ resp' = Response("send", 400, "Invalid chat ID", 0, <<>>)
                                 /\ UNCHANGED <<chats, nextId>>
        /\ UNCHANGED <<clock, deleted>>

\* "Save user message": one update_one. pushed records whether it matched a document.
send_save_user(r) ==
    /\ reqs[r].pc = "user"
    /\ LET msg == [role |-> "user", text |-> reqs[r].query, req |-> reqs[r].id]
       IN  /\ chats' = PushMessage(chats, reqs[r].oid, msg)
           /\ reqs' = [reqs EXCEPT ![r].pc = "answer",
                                   ![r].pushed = Append(@, reqs[r].oid \in DOMAIN chats)]
    /\ resp' = NoResp
    /\ UNCHANGED <<nextId, clock, hits, nstart, deleted, admitted>>

\* A plausible slip: the override dropped, every keyword match an emergency.
AnswerNoOverride(query, docs, llm) ==
    IF is_emergency(query)
    THEN [answer |-> SAFETY, retr |-> 0, llm |-> 0]
    ELSE IF docs.ok /\ llm.ok
    THEN [answer |-> llm.content.qa, retr |-> 1, llm |-> 1]
    ELSE [answer |-> APOLOGY, retr |-> 1, llm |-> IF docs.ok THEN 1 ELSE 0]

\* A plausible slip: the text of the exception returned in place of the apology.
AnswerErrorText(query, docs, llm) ==
    IF EmergencyBranch(query)
    THEN [answer |-> SAFETY, retr |-> 0, llm |-> 0]
    ELSE IF docs.ok /\ llm.ok
    THEN [answer |-> llm.content.qa, retr |-> 1, llm |-> 1]
    ELSE [answer |-> << "Connection error." >>, retr |-> 1, llm |-> IF docs.ok THEN 1 ELSE 0]

\* Lines 181-209: the reply, and the external calls made for it, given what the
\* retriever and the model would return. An exception of either is caught and
\* becomes the apology; nothing is called a second time.
Answer(query, docs, llm) ==
    IF EmergencyBranch(query)
    THEN [answer |-> SAFETY, retr |-> 0, llm |-> 0]
    ELSE IF ~docs.ok
    THEN [answer |-> APOLOGY, retr |-> 1, llm |-> 0]
    ELSE LET context == Join(<<"\n", "\n">>, docs.docs)
             prompt  == IF Strip(context) # <<>> THEN "qa" ELSE "general"
         IN  IF llm.ok
             THEN [answer |-> llm.content[prompt], retr |-> 1, llm |-> 1]
             ELSE [answer |-> APOLOGY, retr |-> 1, llm |-> 1]

\* The emergency check and the retrieval and model calls: no shared state is touched.
\* retrievals and completions are what the two services may return to this call;
\* failed records that a call that was made raised.
send_answer(r, retrievals, completions) ==
    /\ reqs[r].pc = "answer"
    /\ \E docs \in retrievals, llm \in completions :
          LET a == Answer(reqs[r].query, docs, llm)
          IN  reqs' = [reqs EXCEPT ![r].pc = "assistant", ![r].answer = a.answer,
                                   ![r].retr = a.retr, ![r].llm = a.llm,
                                   ![r].failed = \/ a.retr > 0 /\ ~docs.ok
                                                 \/ a.llm > 0 /\ ~llm.ok]
    /\ resp' = NoResp
    /\ UNCHANGED <<chats, nextId, clock, hits, nstart, deleted, admitted>>

\* "Save assistant message" and return {"bot": answer}.
send_save_assistant(r) ==
    /\ reqs[r].pc = "assistant"
    /\ LET msg == [role |-> "assistant", text |-> reqs[r].answer, req |-> reqs[r].id]
       IN  /\ chats' = PushMessage(chats, reqs[r].oid, msg)
           /\ reqs' = [reqs EXCEPT ![r].pc = "done", ![r].status = 200,
                                   ![r].pushed = Append(@, reqs[r].oid \in DOMAIN chats)]
    /\ resp' = Response("send", 200, "", reqs[r].oid, <<reqs[r].answer>>)
    /\ UNCHANGED <<nextId, clock, hits, nstart, deleted, admitted>>

(***************************************************************************)
(* GET /chat/{chat_id}, GET /chats, PUT /chat/{chat_id}/title,             *)
(* DELETE /chat/{chat_id}. An exception that leaves a handler is answered  *)
(* by the framework with 500 Internal Server Error.                        *)
(***************************************************************************)
get_chat(chat_id) ==
    /\ IF ~Parsed[chat_id].valid
       THEN resp' = Response("get_chat", 500, "InvalidId", 0, <<>>)
       ELSE LET oid == Parsed[chat_id].oid
            IN  IF oid \notin DOMAIN chats
                THEN resp' = Response("get_chat", 500, "TypeError", oid, <<>>)
                ELSE resp' = Response("get_chat", 200, "", oid,
                                      << [_id |-> OidStr(oid), title |-> chats[oid].title,
                                          created_at |-> chats[oid].created_at,
                                          messages |-> chats[oid].messages] >>)
    /\ UNCHANGED <<chats, nextId, clock, hits, reqs, nstart, deleted, admitted>>

list_chats ==
    /\ \E order \in FindSorted(chats) :
          resp' = Response("list_chats", 200, "", 0,
                           [i \in 1..Len(order) |->
                               [chat_id |-> OidStr(order[i]), title |-> chats[order[i]].title]])
    /\ UNCHANGED <<chats, nextId, clock, hits, reqs, nstart, deleted, admitted>>

update_chat_title(chat_id, title) ==
    /\ IF ~Parsed[chat_id].valid
       THEN /\ resp' = Response("update_chat_title", 500, "InvalidId", 0, <<>>)
            /\ UNCHANGED chats
       ELSE /\ chats' = SetTitle(chats, Parsed[chat_id].oid, title)
            /\ resp' = Response("update_chat_title", 200, "", Parsed[chat_id].oid, <<"updated">>)
    /\ UNCHANGED <<nextId, clock, hits, reqs, nstart, deleted, admitted>>

delete_chat(chat_id) ==
    /\ IF ~Parsed[chat_id].valid
       THEN /\ resp' = Response("delete_chat", 500, "InvalidId", 0, <<>>)
            /\ UNCHANGED <<chats, deleted>>
       ELSE LET oid == Parsed[chat_id].oid
            IN  /\ chats' = DeleteOne(chats, oid)
                /\ deleted' = IF oid \in DOMAIN chats THEN deleted \cup {oid} ELSE deleted
                /\ resp' = Response("delete_chat", 200, "", oid, <<"deleted">>)
    /\ UNCHANGED <<nextId, clock, hits, reqs, nstart, admitted>>

(***************************************************************************)
(* The wall clock read by datetime.now() and by the limiter                *)
(***************************************************************************)
Tick(step, horizon) ==
    /\ clock + step <= horizon
    /\ clock' = clock + step
    /\ admitted' = [a \in Addrs |-> SelectSeq(admitted[a], LAMBDA t : t > clock' - WINDOW_MS)]
    /\ resp' = NoResp
    /\ UNCHANGED <<chats, nextId, hits, reqs, nstart, deleted>>

\* The outcomes of the external calls: every one, and the successful ones alone.
Succeeds(results) == {x \in results : x.ok}

(***************************************************************************)
(* Spec: concurrent send_message calls. Every call may be in flight at     *)
(* once, on a session that exists, that never existed or that is deleted   *)
(* under them.                                                             *)
(***************************************************************************)
SaveUser == \E r \in Slots : send_save_user(r)
SaveAssistant == \E r \in Slots : send_save_assistant(r)

Create == new_chat(MaxChats)
Send == \E chat_id \in WellFormed(nextId), raw \in OneQuery :
            send_start(Slots, FALSE, MaxSends, MaxChats, Addr1, chat_id, raw)
Reply == \E r \in Slots : send_answer(r, RetrieverResults, LlmResults)
ReplyOk == \E r \in Slots : send_answer(r, Succeeds(RetrieverResults), Succeeds(LlmResults))
Delete == \E chat_id \in WellFormed(nextId) : delete_chat(chat_id)

Next ==
    \/ Create
    \/ Send
    \/ SaveUser
    \/ ReplyOk
    \/ SaveAssistant
    \/ Delete

Spec == Init /\ [][Next]_vars

(***************************************************************************)
(* SpecSend: one send_message call in flight at a time, with every kind of *)
(* path id and every outcome of the external calls, while sessions are     *)
(* created and deleted between its steps.                                  *)
(***************************************************************************)
SendAny == \E chat_id \in Sentinels \cup WellFormed(nextId) \cup Malformed, raw \in FewQueries :
               send_start({1}, TRUE, MaxSeqSends, MaxSessions, Addr1, chat_id, raw)
SendCreate == new_chat(MaxSessions)

NextSend ==
    \/ SendCreate
    \/ SendAny
    \/ SaveUser
    \/ Reply
    \/ SaveAssistant
    \/ Delete

SpecSend == Init /\ [][NextSend]_vars

(***************************************************************************)
(* SpecCrud: get, set_title and delete with every kind of path id, between *)
(* the steps of one send_message call at a time.                           *)
(***************************************************************************)
\* The ids a caller presents to get, set_title and delete.
PathIds == WellFormed(nextId) \cup Malformed \cup {Null}

CrudCreate == new_chat(MaxCrudChats)
CrudSend == \E chat_id \in {Null} \cup WellFormed(nextId), raw \in OneQuery :
                send_start({1}, TRUE, MaxCrudSends, MaxCrudChats, Addr1, chat_id, raw)
CrudGet == \E chat_id \in PathIds : get_chat(chat_id)
CrudRetitle == \E chat_id \in PathIds, title \in Titles : update_chat_title(chat_id, title)
CrudDelete == \E chat_id \in PathIds : delete_chat(chat_id)

NextCrud ==
    \/ CrudCreate
    \/ CrudSend
    \/ SaveUser
    \/ ReplyOk
    \/ SaveAssistant
    \/ CrudGet
    \/ CrudRetitle
    \/ CrudDelete

SpecCrud == Init /\ [][NextCrud]_vars

(***************************************************************************)
(* SpecList: sessions created (by new_chat and by send_message), renamed   *)
(* and deleted while the clock advances, and listed.                       *)
(***************************************************************************)
ListCreate == new_chat(MaxListChats)
ListSend == \E chat_id \in {Null}, raw \in OneQuery :
                send_start({1}, TRUE, MaxListSends, MaxListChats, Addr1, chat_id, raw)
ListRetitle == \E chat_id \in WellFormed(nextId), title \in Titles : update_chat_title(chat_id, title)
ListTick == Tick(1, MaxClock)

NextList ==
    \/ ListCreate
    \/ ListSend
    \/ SaveUser
    \/ ReplyOk
    \/ SaveAssistant
    \/ list_chats
    \/ ListRetitle
    \/ Delete
    \/ ListTick

SpecList == Init /\ [][NextList]_vars

(***************************************************************************)
(* SpecQuery: one call after the other, with every query.                  *)
(***************************************************************************)
QuerySend == \E chat_id \in {Null, OidStr(NeverIssued)}, raw \in AllQueries :
                 send_start({1}, TRUE, MaxQuerySends, MaxChats, Addr1, chat_id, raw)

NextQuery ==
    \/ QuerySend
    \/ SaveUser
    \/ Reply
    \/ SaveAssistant

SpecQuery == Init /\ [][NextQuery]_vars

(***************************************************************************)
(* SpecRate: two addresses sending, one call after the other, while the    *)
(* clock advances by half windows. One session is created at most, and the *)
(* second address stays within MaxOtherSends calls a window.               *)
(***************************************************************************)
RateSend == \E addr \in Addrs, chat_id \in {Null, OidStr(NeverIssued)}, raw \in OneQuery :
                /\ addr = Addr2 => hits[Addr2].count < MaxOtherSends
                /\ send_start({1}, TRUE, MaxRateSends, 1, addr, chat_id, raw)
RateTick == Tick(WINDOW_MS \div 2, MaxHalfWindows * (WINDOW_MS \div 2))

NextRate ==
    \/ RateSend
    \/ SaveUser
    \/ ReplyOk
    \/ SaveAssistant
    \/ RateTick

SpecRate == Init /\ [][NextRate]_vars

(***************************************************************************)
(* Properties. A call is admitted when neither the limiter (429) nor the   *)
(* id check (400) refused it; Mine is what a call has left in a log.       *)
(***************************************************************************)
Refused(q) == q.pc = "done" /\ q.status \in {400, 429}
Answered(q) == q.pc \in {"assistant", "done"} /\ ~Refused(q)
Returned(q) == q.pc = "done" /\ q.status = 200

Mine(log, id) == SelectSeq(log, LAMBDA m : m.req = id)
Entry(m) == [role |-> m.role, text |-> m.text]
Entries(log) == [i \in 1..Len(log) |-> Entry(log[i])]

\* The condition as the specification words it, on the query the caller sent.
KeywordAndNoWhat(raw) ==
    LET q == Lower(Strip(raw))
    IN  /\ \E k \in EMERGENCY_KEYWORDS : Contains(q, k)
        /\ ~Contains(q, What)

TookEmergencyBranch(q) == q.answer = SAFETY /\ q.retr = 0 /\ q.llm = 0

(***************************************************************************)
(* C1: for every query, send_message takes the emergency branch (the fixed *)
(* safety message, no retrieval, no model call) exactly when the trimmed,  *)
(* lower-cased query contains an emergency keyword and does not contain    *)
(* "what"; every other query goes to retrieval.                            *)
(***************************************************************************)
C1_EmergencyBranch ==
    \A r \in Slots :
        Answered(reqs[r]) =>
            /\ TookEmergencyBranch(reqs[r]) <=> KeywordAndNoWhat(reqs[r].raw)
            /\ ~TookEmergencyBranch(reqs[r]) => reqs[r].retr = 1 /\ reqs[r].answer # SAFETY

\* A query with a keyword and an upper-case "WHAT" has gone to retrieval and the model.
C1_Witness ==
    /\ Returned(reqs[1])
    /\ reqs[1].raw = Queries[4]
    /\ \E k \in EMERGENCY_KEYWORDS : Contains(Lower(Strip(reqs[1].raw)), k)
    /\ reqs[1].retr = 1 /\ reqs[1].llm = 1
    /\ reqs[1].answer \notin {SAFETY, APOLOGY}

\* A step that receives a send_message call in slot r, and a later step of that call.
Starts(r) == reqs'[r].id # reqs[r].id
Advances(r) == reqs'[r].id = reqs[r].id /\ reqs'[r].pc # reqs[r].pc

FreshSession(now) == [title |-> "New Chat", created_at |-> now, messages |-> <<>>]

\* The steps of a call with a sentinel id, and what its session holds.
C2_Creates ==
    \A r \in Slots :
        /\ Starts(r) /\ IsSentinel(reqs'[r].chat_id) /\ ~Refused(reqs'[r]) =>
              /\ reqs'[r].oid \notin DOMAIN chats
              /\ DOMAIN chats' = DOMAIN chats \cup {reqs'[r].oid}
              /\ chats'[reqs'[r].oid] = FreshSession(clock)
              /\ \A o \in DOMAIN chats : chats'[o] = chats[o]
        /\ Advances(r) => DOMAIN chats' \subseteq DOMAIN chats

C2_Log ==
    \A r \in Slots :
        LET q == reqs[r]
        IN  IsSentinel(q.chat_id) /\ q.pc # "idle" /\ ~Refused(q) =>
               /\ q.oid \in DOMAIN chats \cup deleted
               /\ q.oid \in DOMAIN chats =>
                     /\ chats[q.oid].title = "New Chat"
                     /\ q.pc = "user" => chats[q.oid].messages = <<>>
                     /\ Returned(q) =>
                           Entries(chats[q.oid].messages) =
                               << [role |-> "user", text |-> Strip(q.raw)],
                                  [role |-> "assistant", text |-> q.answer] >>
               /\ Returned(q) /\ resp.op = "send" =>
                     resp.status = 200 /\ resp.body = << q.answer >>

(***************************************************************************)
(* C2: a send_message call with an absent or sentinel session id creates   *)
(* exactly one new session, titled "New Chat" with an empty log, and when  *)
(* it returns that session's log holds exactly one user message, the       *)
(* trimmed query, followed by exactly one assistant message, the reply     *)
(* returned to the caller (the session not having been deleted meanwhile). *)
(***************************************************************************)
C2_SentinelCreates == []C2_Log /\ [][C2_Creates]_vars

\* The call with id "null" and a query with blanks around it has just returned the
\* model's reply, and its session holds the two entries.
C2_Witness ==
    /\ resp.op = "send" /\ resp.status = 200
    /\ reqs[1].chat_id = Null /\ reqs[1].raw = Queries[1] /\ reqs[1].query # reqs[1].raw
    /\ reqs[1].oid \in DOMAIN chats
    /\ Len(chats[reqs[1].oid].messages) = 2
    /\ resp.body = << chats[reqs[1].oid].messages[2].text >>

(***************************************************************************)
(* C3: when the retriever or the model call fails in a send_message call   *)
(* that did not take the emergency branch, the failure is absorbed: the    *)
(* call is not retried, the caller gets a success response whose reply is  *)
(* the fixed apology, and the apology is the assistant message appended    *)
(* to the session's log.                                                   *)
(***************************************************************************)
C3_FailureAbsorbed ==
    \A r \in Slots :
        LET q == reqs[r]
        IN  q.failed =>
               /\ q.pc \in {"assistant", "done"}
               /\ ~TookEmergencyBranch(q)
               /\ q.answer = APOLOGY
               /\ q.retr = 1 /\ q.llm <= 1
               /\ q.pc = "done" =>
                     /\ q.status = 200
                     /\ resp.op = "send" => resp.status = 200 /\ resp.body = << APOLOGY >>
                     /\ q.oid \in DOMAIN chats =>
                           LET mine == Mine(chats[q.oid].messages, q.id)
                           IN  /\ Len(mine) = 2
                               /\ Entry(mine[2]) = [role |-> "assistant", text |-> APOLOGY]

\* The model call has failed after a retrieval that succeeded, and the call has returned.
C3_Witness ==
    /\ Returned(reqs[1]) /\ reqs[1].failed /\ reqs[1].llm = 1
    /\ resp.op = "send" /\ resp.body = << APOLOGY >>
    /\ reqs[1].oid \in DOMAIN chats
    /\ Len(chats[reqs[1].oid].messages) = 2
    /\ chats[reqs[1].oid].messages[2].text = APOLOGY

\* The step that receives a malformed id, and the call it leaves behind.
C4_Rejects ==
    \A r \in Slots :
        Starts(r) /\ reqs'[r].chat_id \in Malformed =>
            /\ reqs'[r].pc = "done" /\ reqs'[r].status = 400
            /\ resp'.op = "send" /\ resp'.status = 400
            /\ chats' = chats /\ nextId' = nextId

C4_NoEffect ==
    \A r \in Slots :
        LET q == reqs[r]
        IN  q.pc # "idle" /\ q.chat_id \in Malformed =>
               /\ q.pc = "done" /\ q.status = 400
               /\ q.created = 0 /\ q.pushed = <<>> /\ q.retr = 0 /\ q.llm = 0
               /\ \A o \in DOMAIN chats : Mine(chats[o].messages, q.id) = <<>>

(***************************************************************************)
(* C4: a send_message call whose session id is neither absent, nor a       *)
(* sentinel, nor a well-formed identifier is rejected with 400 before      *)
(* anything happens: no session is created, no message is appended, the    *)
(* retriever and the model are not called.                                 *)
(***************************************************************************)
C4_MalformedRejected == []C4_NoEffect /\ [][C4_Rejects]_vars

\* A 24-character id with a letter that is no hexadecimal digit has just been refused,
\* with a session in the store.
C4_Witness ==
    /\ resp.op = "send" /\ resp.status = 400
    /\ Len(reqs[1].chat_id) = ObjectIdLen /\ reqs[1].chat_id \in Malformed
    /\ DOMAIN chats # {}

\* The steps of a call whose id names no session, and the store they leave.
WellFormedId(chat_id) == ~IsSentinel(chat_id) /\ chat_id \notin Malformed

C10_Steps ==
    \A r \in Slots :
        /\ Starts(r) /\ WellFormedId(reqs'[r].chat_id) =>
              /\ reqs'[r].pc = "user" /\ reqs'[r].created = 0
              /\ chats' = chats /\ nextId' = nextId
        /\ Advances(r) /\ WellFormedId(reqs[r].chat_id) /\ reqs[r].oid \notin DOMAIN chats =>
              /\ chats' = chats /\ nextId' = nextId
              /\ reqs[r].pc = "user" => reqs'[r].pc = "answer"
              /\ reqs[r].pc = "answer" => reqs'[r].pc = "assistant" /\ reqs'[r].answer # <<>>
              /\ reqs[r].pc = "assistant" =>
                    /\ reqs'[r].pc = "done" /\ reqs'[r].status = 200
                    /\ resp' = Response("send", 200, "", reqs[r].oid, << reqs[r].answer >>)

C10_Store ==
    /\ DOMAIN chats \subseteq 1..(nextId - 1)
    /\ DOMAIN chats \cap deleted = {}
    /\ \A r \in Slots :
          LET q == reqs[r]
          IN  Returned(q) /\ WellFormedId(q.chat_id) =>
                 /\ Len(q.pushed) = 2
                 /\ TookEmergencyBranch(q) \/ q.retr = 1
                 /\ \A i \in 1..2 : ~q.pushed[i] => q.oid \notin DOMAIN chats

(***************************************************************************)
(* C10: a send_message call with a well-formed id that names no session    *)
(* (never created, or deleted before or during the call) does not fail     *)
(* and creates no session; each append that finds no session changes       *)
(* nothing; the pipeline still runs and the caller gets a reply with a     *)
(* success response.                                                       *)
(***************************************************************************)
C10_MissingSession == []C10_Store /\ [][C10_Steps]_vars

\* The session was deleted between the two appends of a call, which has returned the
\* model's reply: the user message was saved and lost with the session, the
\* assistant message was appended to nothing.
C10_Witness ==
    /\ resp.op = "send" /\ resp.status = 200
    /\ reqs[1].pushed = << TRUE, FALSE >>
    /\ reqs[1].oid \in deleted
    /\ reqs[1].retr = 1 /\ ~reqs[1].failed

(***************************************************************************)
(* C6: once delete_chat has removed a session, the session stays removed:  *)
(* no later operation brings it back, a send_message call in flight on it  *)
(* included, and a get_chat of its id finds no document (find_one gives    *)
(* None, which get_chat answers as a failure, never as a session).         *)
(***************************************************************************)
C6_DeleteIsFinal ==
    /\ DOMAIN chats \cap deleted = {}
    /\ resp.op = "get_chat" /\ resp.oid \in deleted =>
          resp.status # 200 /\ resp.exc = "TypeError" /\ resp.body = <<>>

\* get_chat on a deleted id, after a send_message call that was in flight when the
\* session was deleted has made its last append and returned.
C6_Witness ==
    /\ resp.op = "get_chat" /\ resp.oid \in deleted
    /\ \E r \in Slots : /\ Returned(reqs[r]) /\ reqs[r].oid = resp.oid
                        /\ reqs[r].pushed = << TRUE, FALSE >>

(***************************************************************************)
(* C7 (as the specification states it): get, set_title and delete answer   *)
(* a session id that is no well-formed identifier with a client error      *)
(* (a 4xx status), and that answer differs from the answer for a           *)
(* well-formed id that names no session.                                   *)
(***************************************************************************)
C7_MalformedIsClientError ==
    resp.op \in {"get_chat", "update_chat_title", "delete_chat"} /\ resp.exc = "InvalidId" =>
        resp.status \in 400..499

\* What list_chats answers, and what a step does to a creation time.
Listed(e) == Parsed[e.chat_id].oid

ListsTheStore ==
    /\ Len(resp.body) = Cardinality(DOMAIN chats)
    /\ {Listed(resp.body[i]) : i \in 1..Len(resp.body)} = DOMAIN chats
    /\ \A i \in 1..Len(resp.body) :
          /\ resp.body[i].chat_id = OidStr(Listed(resp.body[i]))
          /\ resp.body[i].title = chats[Listed(resp.body[i])].title

C8_Descending ==
    resp.op = "list_chats" =>
        /\ ListsTheStore
        /\ \A i, j \in 1..Len(resp.body) :
              i < j => chats[Listed(resp.body[i])].created_at
                          >= chats[Listed(resp.body[j])].created_at

C8_CreatedOnce ==
    \A o \in DOMAIN chats' :
        chats'[o].created_at = IF o \in DOMAIN chats THEN chats[o].created_at ELSE clock

(***************************************************************************)
(* C8: list_chats returns exactly the sessions that exist, each once, in   *)
(* an order of non-increasing creation time (sessions created at the same  *)
(* clock reading come in either order); the creation time is set when the  *)
(* session is created and no operation, set_title included, changes it.    *)
(***************************************************************************)
C8_ListOrder == []C8_Descending /\ [][C8_CreatedOnce]_vars

\* Two sessions created at different times are listed, the older one renamed since.
C8_Witness ==
    /\ resp.op = "list_chats" /\ Len(resp.body) = 2
    /\ resp.body[1].title = "New Chat" /\ resp.body[2].title = "Renamed"
    /\ chats[Listed(resp.body[1])].created_at > chats[Listed(resp.body[2])].created_at
    /\ Listed(resp.body[1]) > Listed(resp.body[2])

\* C8 as the specification states it: the list is strictly ordered by descending
\* creation time.
C8_StrictlyDescending ==
    resp.op = "list_chats" =>
        /\ ListsTheStore
        /\ \A i, j \in 1..Len(resp.body) :
              i < j => chats[Listed(resp.body[i])].created_at
                          > chats[Listed(resp.body[j])].created_at

(***************************************************************************)
(* C9: under every interleaving of concurrent send_message calls on one    *)
(* session that exists and is never deleted, the log is a merge of the     *)
(* calls' pairs: each call's user message is in the log once, before that  *)
(* call's assistant reply, which is in the log once; nothing is lost or    *)
(* duplicated, so n returned calls have grown the log by 2n entries; the   *)
(* order between entries of different calls is free.                       *)
(***************************************************************************)
OnSession(s) == {r \in Slots : reqs[r].pc # "idle" /\ ~Refused(reqs[r]) /\ reqs[r].oid = s}

Pair(q) == << [role |-> "user", text |-> Strip(q.raw)],
              [role |-> "assistant", text |-> q.answer] >>

C9_MergeOfPairs ==
    \A s \in DOMAIN chats :
        LET log == chats[s].messages
        IN  /\ \A r \in OnSession(s) :
                  Entries(Mine(log, reqs[r].id)) =
                      CASE reqs[r].pc = "user" -> <<>>
                        [] reqs[r].pc \in {"answer", "assistant"} -> SubSeq(Pair(reqs[r]), 1, 1)
                        [] OTHER -> Pair(reqs[r])
            /\ \A i \in 1..Len(log) : \E r \in OnSession(s) : log[i].req = reqs[r].id
            /\ (\A r \in OnSession(s) : Returned(reqs[r])) =>
                  Len(log) = 2 * Cardinality(OnSession(s))

\* Two calls on one session have returned, and the log does not alternate: both user
\* messages come before both replies.
C9_Witness ==
    \E s \in DOMAIN chats :
        /\ Cardinality(OnSession(s)) = 2
        /\ \A r \in OnSession(s) : Returned(reqs[r])
        /\ Len(chats[s].messages) = 4
        /\ chats[s].messages[1].role = "user" /\ chats[s].messages[2].role = "user"
        /\ chats[s].messages[1].req # chats[s].messages[2].req

\* The limiter's windows, as the history of admissions shows them.
\* The admissions of an address in the window its counter stands for.
InWindow(a) ==
    Cardinality({i \in 1..Len(admitted[a]) :
                    /\ admitted[a][i] >= hits[a].expiry - WINDOW_MS
                    /\ admitted[a][i] < hits[a].expiry})

WindowFull(a) == hits[a].expiry > clock /\ InWindow(a) >= QUOTA

C5_Inert ==
    \A r \in Slots :
        LET q == reqs[r]
        IN  q.status = 429 =>
               /\ q.pc = "done"
               /\ q.created = 0 /\ q.pushed = <<>> /\ q.retr = 0 /\ q.llm = 0
               /\ \A o \in DOMAIN chats : Mine(chats[o].messages, q.id) = <<>>

C5_Quota ==
    /\ \A a \in Addrs : InWindow(a) <= QUOTA
    /\ C5_Inert

C5_Refuses ==
    \A r \in Slots :
        Starts(r) =>
            LET a == reqs'[r].addr
            IN  IF WindowFull(a)
                THEN /\ reqs'[r].status = 429
                     /\ resp' = Response("send", 429, "RateLimitExceeded", 0, <<>>)
                     /\ chats' = chats /\ nextId' = nextId /\ admitted' = admitted
                ELSE /\ reqs'[r].pc = "user"
                     /\ Len(admitted'[a]) = Len(admitted[a]) + 1

(***************************************************************************)
(* C5: for each client address, at most 8 send_message calls are admitted  *)
(* in each fixed one-minute window, the window being opened by the         *)
(* address's first call after its previous window ran out; a further call  *)
(* in that window is refused with 429 and creates no session, appends no   *)
(* message and reaches neither the retriever nor the model; whether a call *)
(* is refused depends on the calls of its own address alone.               *)
(***************************************************************************)
C5_FixedWindow == []C5_Quota /\ [][C5_Refuses]_vars

\* The ninth call of one address in its window has just been refused, in a minute in
\* which a call of the other address was admitted.
C5_Witness ==
    /\ resp.op = "send" /\ resp.status = 429
    /\ reqs[1].addr = Addr1 /\ reqs[1].chat_id = Null
    /\ InWindow(Addr1) = QUOTA /\ hits[Addr1].count = QUOTA + 1
    /\ Len(admitted[Addr2]) = 1

\* C5 as the specification states it: at most 8 admitted calls of an address within
\* any rolling minute (admitted holds the admissions of the last minute).
C5_RollingWindow ==
    /\ \A a \in Addrs : Len(admitted[a]) <= QUOTA
    /\ C5_Inert

=============================================================================
